---------------------------- MODULE Spec2Model ----------------------------
(***************************************************************************)
(* A model of anchor's index.js: the Anchor facade (constructor, to /       *)
(* hasErrors, define), the rule registry Anchor.prototype.rules, and the    *)
(* Validator (initialize, validate).                                        *)
(*                                                                          *)
(* JavaScript values are records [t, s, n, o]: t is the type tag, s the     *)
(* payload of a string (or the identity of a function), n the payload of a  *)
(* number or boolean, o the own enumerable properties of an object or an    *)
(* array.  A JavaScript object is the sequence of its properties            *)
(* [k |-> key, v |-> value] in insertion order, which is the order for-in   *)
(* and Object.keys enumerate.                                               *)
(*                                                                          *)
(* In index.js the Validator calls the facade through the name `anchor`;    *)
(* the model reads it as the function the module exports.                   *)
(***************************************************************************)
EXTENDS Integers, Sequences, FiniteSets

VARIABLES
    rules,        \* Anchor.prototype.rules: the registry, name -> predicate
    defName,      \* define: the last call's first argument
    defDefinition,\* define: the last call's second argument
    rulesBefore,  \* define: the registry when the last call began
    defRet,       \* define: "none" | "this" | "throw"
    defErr,       \* define: the Error thrown, [msg, key]
    data,         \* Anchor instance: this.data
    anchorState,  \* Anchor instance: "none" | "built" | "throw"
    toRuleset,    \* to / hasErrors: the ruleset of the last call
    toVia,        \* "none" | "to" | "hasErrors"
    toResult,     \* to / hasErrors: the value returned
    validations,  \* Validator: this.validations
    initAttrs,    \* initialize: the attrs of the last call that built validations
    pc,           \* Validator: "idle" | "built" | "running" | "done" | "thrown"
    values,       \* validate: the values bag
    presentOnly,  \* validate: the second argument
    selected,     \* validate: the local `validations`, the array given to async.each
    checked,      \* validate: attributes whose iterator ran to its cb()
    matched,      \* validate: attributes handed to anchor(value).to(...)
    thrownAt,     \* validate: the attribute whose iterator threw, as a set
    errors,       \* validate: the local `errors` object
    cbCount,      \* validate: number of invocations of the user's callback
    cbArg         \* validate: the argument of the last invocation

defVars == <<rules, defName, defDefinition, rulesBefore, defRet, defErr>>
toVars == <<data, anchorState, toRuleset, toVia, toResult>>
validatorVars == <<validations, initAttrs, pc, values, presentOnly, selected,
                   checked, matched, thrownAt, errors, cbCount, cbArg>>
vars == <<defVars, toVars, validatorVars>>

-----------------------------------------------------------------------------
(* JavaScript values *)

Undefined == [t |-> "undefined", s |-> "", n |-> 0, o |-> <<>>]
Null == [t |-> "null", s |-> "", n |-> 0, o |-> <<>>]
Str(x) == [t |-> "string", s |-> x, n |-> 0, o |-> <<>>]
Num(i) == [t |-> "number", s |-> "", n |-> i, o |-> <<>>]
Bool(b) == [t |-> "boolean", s |-> "", n |-> IF b THEN 1 ELSE 0, o |-> <<>>]
Fn(id) == [t |-> "function", s |-> id, n |-> 0, o |-> <<>>]
Object(props) == [t |-> "object", s |-> "", n |-> 0, o |-> props]
Prop(key, val) == [k |-> key, v |-> val]
True == Bool(TRUE)
False == Bool(FALSE)

\* !!v
Truthy(v) ==
    CASE v.t \in {"undefined", "null"} -> FALSE
      [] v.t = "boolean" -> v.n = 1
      [] v.t = "number" -> v.n # 0
      [] v.t = "string" -> v.s # ""
      [] OTHER -> TRUE

\* lodash isFunction / isString / isObject
IsFunction(v) == v.t = "function"
IsString(v) == v.t = "string"
IsObject(v) == v.t \in {"object", "array", "function"}

\* The decimal numerals of the numbers the model uses.
Numeral(i) ==
    CASE i = 0 -> "0" [] i = 1 -> "1" [] i = 2 -> "2" [] i = 5 -> "5"
      [] i = -1 -> "-1" [] OTHER -> "NaN"

Array(elems) ==
    [t |-> "array", s |-> "", n |-> 0,
     o |-> [i \in 1..Len(elems) |-> Prop(Numeral(i - 1), elems[i])]]

\* v.toString() is a TypeError on null and undefined.
CanToString(v) == v.t \notin {"undefined", "null"}
toString(v) ==
    CASE v.t = "string" -> v.s
      [] v.t = "boolean" -> (IF v.n = 1 THEN "true" ELSE "false")
      [] v.t = "number" -> Numeral(v.n)
      [] v.t = "function" -> "function"
      [] v.t = "array" -> "array"
      [] OTHER -> "[object Object]"

\* '' + v, the string concatenation of an Error message
Concat(v) ==
    CASE v.t = "undefined" -> "undefined"
      [] v.t = "null" -> "null"
      [] OTHER -> toString(v)

-----------------------------------------------------------------------------
(* JavaScript objects: property sequences in insertion order *)

Keys(obj) == [i \in 1..Len(obj) |-> obj[i].k]
KeySet(obj) == {obj[i].k : i \in 1..Len(obj)}
Has(obj, key) == key \in KeySet(obj)
IndexOf(obj, key) == CHOOSE i \in 1..Len(obj) : obj[i].k = key

\* obj[key]: undefined when absent
Get(obj, key) == IF Has(obj, key) THEN obj[IndexOf(obj, key)].v ELSE Undefined

\* obj[key] = val: an existing key keeps its place, a new key goes last
Set(obj, key, val) ==
    IF Has(obj, key)
    THEN [obj EXCEPT ![IndexOf(obj, key)] = Prop(key, val)]
    ELSE Append(obj, Prop(key, val))

\* util.extend(obj, source)
RECURSIVE Extend(_, _)
Extend(obj, source) ==
    IF source = <<>> THEN obj
    ELSE Extend(Set(obj, Head(source).k, Head(source).v), Tail(source))

\* The object as a mapping, forgetting the insertion order.
AsMap(obj) == {<<obj[i].k, obj[i].v>> : i \in 1..Len(obj)}

\* Sequences without repetition, of length at most n, over the set S.
RECURSIVE InjSeqs(_, _)
InjSeqs(S, n) ==
    IF n = 0 THEN {<<>>}
    ELSE LET shorter == InjSeqs(S, n - 1)
         IN  shorter \cup
             {Append(q, x) : <<q, x>> \in
                 {y \in shorter \X S :
                     \A i \in 1..Len(y[1]) : y[1][i] # y[2]}}

-----------------------------------------------------------------------------
(* The registry and define *)

\* Anchor.prototype.rules = require('./lib/rules'): the built-in predicates.
BuiltinRules ==
    << Prop("string", Fn("isString")),
       Prop("boolean", Fn("isBoolean")),
       Prop("integer", Fn("isInteger")),
       Prop("text", Fn("isString")),
       Prop("required", Fn("notEmpty")),
       Prop("min", Fn("min")),
       Prop("in", Fn("in")) >>

NoError == [msg |-> "", key |-> ""]

\* for (var attr in name) if (!util.isFunction(name[attr])) throw ...
\* the first property, in enumeration order, that is no function
BadProps(props) == {i \in 1..Len(props) : ~IsFunction(props[i].v)}
FirstBad(props) == CHOOSE i \in BadProps(props) : \A j \in BadProps(props) : i <= j

\* A define that registers each property as it checks it, so that the callable
\* properties before the first bad one are bound when it throws.
RECURSIVE DefineDictionaryEager(_, _)
DefineDictionaryEager(reg, name) ==
    IF name.o = <<>> THEN [rules |-> reg, ret |-> "this", err |-> NoError]
    ELSE IF ~IsFunction(Head(name.o).v)
         THEN [rules |-> reg, ret |-> "throw",
               err |-> [msg |-> "does not have a definition", key |-> Head(name.o).k]]
         ELSE DefineDictionaryEager(Set(reg, Head(name.o).k, Head(name.o).v),
                                    [name EXCEPT !.o = Tail(name.o)])

\* define's dictionary branch: check every property, then extend the registry
DefineDictionary(reg, name) ==
    IF BadProps(name.o) # {}
    THEN [rules |-> reg, ret |-> "throw",
          err |-> [msg |-> "does not have a definition",
                   key |-> name.o[FirstBad(name.o)].k]]
    ELSE [rules |-> Extend(reg, name.o), ret |-> "this", err |-> NoError]

\* A define that keeps the binding of a name that is already registered.
DefineSingleKeep(reg, name, definition) ==
    [rules |-> IF Has(reg, name.s) THEN reg ELSE Set(reg, name.s, definition),
     ret |-> "this", err |-> NoError]

\* define's single branch: Anchor.prototype.rules[name] = definition
DefineSingle(reg, name, definition) ==
    [rules |-> Set(reg, name.s, definition), ret |-> "this", err |-> NoError]

\* Anchor.prototype.define(name, definition)
DefineResult(reg, name, definition) ==
    IF IsObject(name) THEN DefineDictionary(reg, name)
    ELSE IF IsFunction(definition) /\ IsString(name)
         THEN DefineSingle(reg, name, definition)
         ELSE [rules |-> reg, ret |-> "throw",
               err |-> [msg |-> "is not a valid definition", key |-> Concat(name)]]

-----------------------------------------------------------------------------
(* Calls of define *)

MaxDictLen == 2

DefNames == {"string", "email", "phone"}
Predicates == {Fn("isEmail"), Fn("isPhone")}
NotCallable == {Str("x"), Undefined}

\* The dictionaries of at most MaxDictLen properties.
Dictionaries ==
    UNION {{Object([i \in 1..Len(ks) |-> Prop(ks[i], f[i])]) :
              f \in [1..Len(ks) -> Predicates \cup {Str("x")}]} :
           ks \in InjSeqs(DefNames, MaxDictLen)}

Define(name, definition) ==
    LET r == DefineResult(rules, name, definition)
    IN  /\ rules' = r.rules
        /\ defRet' = r.ret
        /\ defErr' = r.err
        /\ defName' = name
        /\ defDefinition' = definition
        /\ rulesBefore' = rules
        /\ UNCHANGED <<toVars, validatorVars>>

\* define(dict)
DefineDict == \E d \in Dictionaries : Define(d, Undefined)

\* define(name, definition), name a string
DefineNamed ==
    \E nm \in DefNames, d \in Predicates \cup NotCallable : Define(Str(nm), d)

\* define(name, definition), name neither a string nor a dictionary
DefineOdd ==
    \E nm \in {Null, Num(1), Fn("isEmail")}, d \in Predicates \cup NotCallable :
        Define(nm, d)

InitRest ==
    /\ data = Undefined /\ anchorState = "none" /\ toRuleset = <<>>
    /\ toVia = "none" /\ toResult = Undefined
    /\ validations = <<>> /\ initAttrs = <<>> /\ pc = "idle"
    /\ values = <<>> /\ presentOnly = Undefined /\ selected = <<>>
    /\ checked = {} /\ matched = {} /\ thrownAt = {} /\ errors = <<>>
    /\ cbCount = 0 /\ cbArg = Undefined

Init ==
    /\ rules = BuiltinRules
    /\ defName = Undefined /\ defDefinition = Undefined
    /\ rulesBefore = BuiltinRules /\ defRet = "none" /\ defErr = NoError
    /\ InitRest

NextDefine == DefineDict \/ DefineNamed \/ DefineOdd
SpecDefine == Init /\ [][NextDefine]_vars

-----------------------------------------------------------------------------
(* Properties of define *)

\* The names of the registry other than those of the set K keep their entries.
OthersKept(K) ==
    /\ KeySet(rules) = KeySet(rulesBefore) \cup K
    /\ \A key \in KeySet(rulesBefore) \ K : Get(rules, key) = Get(rulesBefore, key)

DictCall == defRet # "none" /\ defName.t = "object"
NamedCall == defRet # "none" /\ defName.t = "string"

\* C7: define(dict) is all-or-nothing.  If a value of dict is not callable the
\* call throws a definition error naming a key whose value is not callable and
\* the registry is as it was before the call; otherwise every entry of dict is
\* bound, every other name keeps its entry, and the facade is returned.
C7_DefineDictAllOrNothing ==
    DictCall =>
        IF \E i \in 1..Len(defName.o) : ~IsFunction(defName.o[i].v)
        THEN /\ defRet = "throw"
             /\ defErr.msg = "does not have a definition"
             /\ \E i \in 1..Len(defName.o) :
                    defErr.key = defName.o[i].k /\ ~IsFunction(defName.o[i].v)
             /\ rules = rulesBefore
        ELSE /\ defRet = "this"
             /\ \A i \in 1..Len(defName.o) :
                    Get(rules, defName.o[i].k) = defName.o[i].v
             /\ OthersKept(KeySet(defName.o))

\* A dictionary whose first entry is callable and not yet registered, and whose
\* second is not callable, was refused.
C7_Witness ==
    /\ DictCall /\ defRet = "throw" /\ Len(defName.o) >= 2
    /\ IsFunction(defName.o[1].v) /\ ~IsFunction(defName.o[2].v)
    /\ Get(rulesBefore, defName.o[1].k) # defName.o[1].v

\* C8 as stated: define(name, predicateFn) registers the predicate and returns
\* the facade, and throws, leaving the registry unchanged, when the predicate is
\* not callable or the name is already bound to another entry.
C8_DefineRefusesRebinding ==
    NamedCall =>
        IF \/ ~IsFunction(defDefinition)
           \/ /\ Has(rulesBefore, defName.s)
              /\ Get(rulesBefore, defName.s) # defDefinition
        THEN defRet = "throw" /\ rules = rulesBefore
        ELSE /\ defRet = "this"
             /\ Get(rules, defName.s) = defDefinition
             /\ OthersKept({defName.s})

\* C8 amended: define(name, predicateFn) with a callable predicate binds name to
\* it, replacing whatever name was bound to, keeps every other entry and returns
\* the facade; with a predicate that is not callable it throws a definition
\* error naming name and leaves the registry unchanged.
C8_DefineReplaces ==
    NamedCall =>
        IF IsFunction(defDefinition)
        THEN /\ defRet = "this"
             /\ Get(rules, defName.s) = defDefinition
             /\ OthersKept({defName.s})
        ELSE /\ defRet = "throw"
             /\ defErr = [msg |-> "is not a valid definition", key |-> defName.s]
             /\ rules = rulesBefore

\* A built-in name was defined again with another predicate.
C8_Witness ==
    /\ NamedCall /\ defRet = "this"
    /\ Has(BuiltinRules, defName.s)
    /\ Get(rulesBefore, defName.s) = Get(BuiltinRules, defName.s)
    /\ Get(rulesBefore, defName.s) # defDefinition

-----------------------------------------------------------------------------
(* The matcher (lib/match.js) and the built-in predicates (lib/rules) *)

\* One violation.
Violation(ruleName, val) == [rule |-> ruleName, value |-> val]

IsEmpty(v) == v.t \in {"undefined", "null"} \/ v = Str("")

\* The predicate fn applied to the value v with the rule's argument arg.
ApplyPredicate(fn, v, arg) ==
    CASE fn.s = "isString" -> v.t = "string"
      [] fn.s = "isBoolean" -> v.t = "boolean"
      [] fn.s = "isInteger" -> v.t = "number"
      [] fn.s = "notEmpty" -> ~IsEmpty(v)
      [] fn.s = "min" -> v.t = "number" /\ arg.t = "number" /\ v.n >= arg.n
      [] fn.s = "in" -> \E i \in 1..Len(arg.o) : arg.o[i].v = v
      [] OTHER -> v.t = "string"

\* Anchor.match.type(data, type), type the name of a registered type
MatchType(reg, val, type) ==
    IF IsString(type) /\ Has(reg, type.s)
       /\ ApplyPredicate(Get(reg, type.s), val, Undefined)
    THEN <<>>
    ELSE <<Violation("type", val)>>

\* Anchor.match.rule(data, rule, arg)
MatchRule(reg, val, rule, arg) ==
    IF Has(reg, rule) /\ ApplyPredicate(Get(reg, rule), val, arg)
    THEN <<>>
    ELSE <<Violation(rule, val)>>

-----------------------------------------------------------------------------
(* Anchor: the constructor and to / hasErrors *)

\* The body of to's loop for one key of the ruleset.
RuleErrors(reg, val, prop) ==
    IF prop.k = "type" THEN MatchType(reg, val, prop.v)
    ELSE MatchRule(reg, val, prop.k, prop.v)

\* for (var rule in ruleset) errors = errors.concat(...)
RECURSIVE ToErrors(_, _, _, _)
ToErrors(reg, val, ruleset, errs) ==
    IF ruleset = <<>> THEN errs
    ELSE ToErrors(reg, val, Tail(ruleset), errs \o RuleErrors(reg, val, Head(ruleset)))

\* The array of violations as a value.
ErrorList(errs) == [t |-> "array", s |-> "", n |-> 0, o |-> errs]

IsTypeProp(prop) == prop.k = "type"
IsRuleProp(prop) == prop.k # "type"

\* A to that checks the type key before every other key.
ToTypeFirst(reg, val, ruleset) ==
    LET errs == ToErrors(reg, val,
                    SelectSeq(ruleset, IsTypeProp) \o SelectSeq(ruleset, IsRuleProp),
                    <<>>)
    IN  IF Len(errs) # 0 THEN ErrorList(errs) ELSE False

\* Anchor.prototype.to(ruleset) on an instance whose data is val
To(reg, val, ruleset) ==
    LET errs == ToErrors(reg, val, ruleset, <<>>)
    IN  IF Len(errs) # 0 THEN ErrorList(errs) ELSE False

MaxRuleKeys == 3

EntityValues ==
    {Null, Str(""), Str("a"), Str("maybe"), True, Num(5), Num(0), Num(-1)}

RuleProps ==
    {Prop("type", Str("string")), Prop("type", Str("boolean")),
     Prop("type", Str("integer")), Prop("required", True),
     Prop("min", Num(1)), Prop("in", Array(<<Str("a"), Num(5)>>))}

\* The objects of at most n properties drawn from P, no key twice.
RECURSIVE Objects(_, _)
Objects(P, n) ==
    IF n = 0 THEN {<<>>}
    ELSE LET smaller == Objects(P, n - 1)
         IN  smaller \cup
             {Append(y[1], y[2]) : y \in
                 {z \in smaller \X P : ~Has(z[1], z[2].k)}}

ToRuleSets == Objects(RuleProps, MaxRuleKeys)

\* anchor(entity): new Anchor(entity)
NewAnchor ==
    \E entity \in EntityValues \cup {Fn("isEmail")} :
        /\ IF IsFunction(entity)
           THEN anchorState' = "throw" /\ data' = Undefined
           ELSE anchorState' = "built" /\ data' = entity
        /\ toRuleset' = <<>> /\ toVia' = "none" /\ toResult' = Undefined
        /\ UNCHANGED <<defVars, validatorVars>>

\* anchor(entity).to(ruleset)
CallTo ==
    \E ruleset \in ToRuleSets :
        /\ anchorState = "built"
        /\ toRuleset' = ruleset /\ toVia' = "to"
        /\ toResult' = To(rules, data, ruleset)
        /\ UNCHANGED <<data, anchorState, defVars, validatorVars>>

\* anchor(entity).hasErrors(ruleset): hasErrors is to
CallHasErrors ==
    \E ruleset \in ToRuleSets :
        /\ anchorState = "built"
        /\ toRuleset' = ruleset /\ toVia' = "hasErrors"
        /\ toResult' = To(rules, data, ruleset)
        /\ UNCHANGED <<data, anchorState, defVars, validatorVars>>

NextTo == NewAnchor \/ CallTo \/ CallHasErrors
SpecTo == Init /\ [][NextTo]_vars

-----------------------------------------------------------------------------
(* Properties of to / hasErrors *)

\* The violations a returned value holds: none when it is false.
Returned(result) == IF result = False THEN <<>> ELSE result.o

\* The violations of the i-th key of the last call's ruleset.
KeyErrors(i) == RuleErrors(rules, data, toRuleset[i])

RECURSIVE Flatten(_)
Flatten(seqs) == IF seqs = <<>> THEN <<>> ELSE Head(seqs) \o Flatten(Tail(seqs))

\* C9 as stated: wherever the type key is declared, the violations returned are
\* those of the type check first, then those of the other rules in declaration
\* order.
C9_TypeErrorsFirst ==
    toVia # "none" =>
        LET typeIdx == {i \in 1..Len(toRuleset) : toRuleset[i].k = "type"}
            ruleIdx == {i \in 1..Len(toRuleset) : toRuleset[i].k # "type"}
            errs == Returned(toResult)
            nType == IF typeIdx = {} THEN 0
                     ELSE Len(KeyErrors(CHOOSE i \in typeIdx : TRUE))
        IN  /\ \A i \in typeIdx : SubSeq(errs, 1, nType) = KeyErrors(i)
            /\ SubSeq(errs, nType + 1, Len(errs)) =
                   Flatten([j \in 1..Len(toRuleset) |->
                              IF j \in ruleIdx THEN KeyErrors(j) ELSE <<>>])

\* The number of violations of the keys declared before the i-th.
RECURSIVE Offset(_)
Offset(i) == IF i <= 1 THEN 0 ELSE Offset(i - 1) + Len(KeyErrors(i - 1))

\* C9 amended: the violations returned are those of the ruleset's keys in
\* declaration order, the type key's at the place where type is declared: the
\* violations of the i-th key follow those of every key declared before it, and
\* nothing else is returned; with no violation the call returns false.
C9_DeclarationOrder ==
    toVia # "none" =>
        LET errs == Returned(toResult)
            n == Len(toRuleset)
        IN  /\ Len(errs) = Offset(n + 1)
            /\ \A i \in 1..n : \A j \in 1..Len(KeyErrors(i)) :
                   errs[Offset(i) + j] = KeyErrors(i)[j]
            /\ (toResult = False) = (Offset(n + 1) = 0)

\* A ruleset that declares type after another rule, both violated.
C9_Witness ==
    /\ toVia # "none" /\ Len(toRuleset) >= 2
    /\ toRuleset[1].k # "type" /\ toRuleset[2].k = "type"
    /\ KeyErrors(1) # <<>> /\ KeyErrors(2) # <<>>

-----------------------------------------------------------------------------
(* Validator.initialize *)

\* A key list that misses one of the schema-only keys.
SchemaOnlyKeysShort ==
    {"defaultsTo", "primaryKey", "autoIncrement", "unique", "index"}

\* /^(defaultsTo|primaryKey|autoIncrement|unique|index|columnName)$/
SchemaOnlyKeys ==
    {"defaultsTo", "primaryKey", "autoIncrement", "unique", "index", "columnName"}

\* for (var prop in attrsVal) { ... }: the validation of one attribute
RECURSIVE BuildValidation(_, _)
BuildValidation(attrsVal, validation) ==
    IF attrsVal = <<>> THEN validation
    ELSE LET prop == Head(attrsVal)
         IN  IF prop.k \in SchemaOnlyKeys
             THEN BuildValidation(Tail(attrsVal), validation)
             ELSE IF prop.k = "enum"
                  THEN BuildValidation(Tail(attrsVal), Set(validation, "in", prop.v))
                  ELSE BuildValidation(Tail(attrsVal), Set(validation, prop.k, prop.v))

\* for (var attr in attrs) { var validation = validations[attr] = {}; ... }
RECURSIVE BuildValidations(_, _)
BuildValidations(attrs, vals) ==
    IF attrs = <<>> THEN vals
    ELSE BuildValidations(Tail(attrs),
             Set(vals, Head(attrs).k,
                 Object(BuildValidation(Head(attrs).v.o, <<>>))))

\* Validator.prototype.initialize(attrs, types)
Initialize(attrs, types) ==
    LET dict == IF Truthy(types) THEN types ELSE Object(<<>>)
        r == DefineResult(rules, dict, Undefined)
    IN  /\ rules' = r.rules /\ defRet' = r.ret /\ defErr' = r.err
        /\ defName' = dict /\ defDefinition' = Undefined /\ rulesBefore' = rules
        /\ IF r.ret = "throw"
           THEN UNCHANGED <<validations, initAttrs, pc>>
           ELSE /\ validations' = BuildValidations(attrs, validations)
                /\ initAttrs' = attrs
                /\ pc' = "built"
        /\ UNCHANGED <<values, presentOnly, selected, checked, matched, thrownAt,
                       errors, cbCount, cbArg, toVars>>

MaxDefKeys == 3

AttrNames == <<"name", "active", "age">>

DefProps ==
    {Prop("type", Str("string")), Prop("required", True),
     Prop("enum", Array(<<Str("a"), Str("b")>>)), Prop("in", Array(<<Str("c")>>)),
     Prop("defaultsTo", Str("a")), Prop("primaryKey", True),
     Prop("autoIncrement", True), Prop("unique", True), Prop("index", True),
     Prop("columnName", Str("col"))}

AttrDefinitions == Objects(DefProps, MaxDefKeys)
SmallDefinitions == Objects(DefProps, 1)

TypesArgs ==
    {Undefined, Object(<<Prop("email", Fn("isEmail"))>>),
     Object(<<Prop("email", Str("x"))>>)}

\* initialize on a new Validator: one attribute, or two
InitializeNew ==
    /\ pc = "idle"
    /\ \E d \in AttrDefinitions, e \in SmallDefinitions, two \in BOOLEAN,
          types \in TypesArgs :
          Initialize(IF two
                     THEN <<Prop(AttrNames[1], Object(d)),
                            Prop(AttrNames[2], Object(e))>>
                     ELSE <<Prop(AttrNames[1], Object(d))>>,
                     types)

\* initialize again, on a Validator that holds validations
InitializeAgain ==
    /\ pc = "built"
    /\ \E k \in 1..2, e \in SmallDefinitions :
          Initialize(<<Prop(AttrNames[k], Object(e))>>, Undefined)

NextInitialize == InitializeNew \/ InitializeAgain
SpecInitialize == Init /\ [][NextInitialize]_vars

-----------------------------------------------------------------------------
(* Properties of initialize *)

Built == pc = "built" /\ defRet = "this"

\* The place of key in the definition def, 0 when absent.
Place(def, key) == IF Has(def, key) THEN IndexOf(def, key) ELSE 0

-----------------------------------------------------------------------------
(* Validator.validate *)

\* _.intersection(a, b): the elements of a, in a's order, that b holds
Intersection(a, b) ==
    LET InB(x) == \E i \in 1..Len(b) : b[i] = x
    IN  SelectSeq(a, InB)

\* A selection that ignores presentOnly.
SelectAll(vals, bag, second) == Keys(vals)

\* The attributes to check: the local `validations` given to async.each.
SelectAttrs(vals, bag, second) ==
    IF second.t = "function" THEN Keys(vals)
    ELSE IF Truthy(second) THEN Intersection(Keys(vals), Keys(bag))
         ELSE Keys(vals)

\* var value = values[validation]; if (typeof value == 'undefined') value = null;
ValueOf(bag, attr) ==
    LET v == Get(bag, attr) IN IF v.t = "undefined" THEN Null ELSE v

\* An emptiness test that misses the empty string.
IsEmptyValueNullOnly(v) == v = Null

\* value === null || value === ''
IsEmptyValue(v) == v = Null \/ v = Str("")

\* The iterator `validate(validation, cb)` for one attribute: what it does
\* before its cb().  kind is "skip" (returned before the matcher), "pass" or
\* "fail" (the matcher ran), or "throw"; err is the matcher's result.
Iterate(reg, vals, bag, attr) ==
    LET cur == Get(vals, attr).o
        value == ValueOf(bag, attr)
        required == Get(cur, "required")
        type == Get(cur, "type")
        err == To(reg, value, cur)
    IN  IF ~Truthy(required) /\ IsEmptyValue(value)
        THEN [kind |-> "skip", err |-> False]
        ELSE IF type = Str("text")
        THEN [kind |-> "skip", err |-> False]
        ELSE IF Truthy(required) /\ type = Str("boolean") /\ ~CanToString(value)
        THEN [kind |-> "throw", err |-> False]
        ELSE IF /\ Truthy(required) /\ type = Str("boolean")
                /\ toString(value) \in {"true", "false"}
        THEN [kind |-> "skip", err |-> False]
        ELSE IF IsFunction(value)
        THEN [kind |-> "throw", err |-> False]
        ELSE IF ~Truthy(err)
        THEN [kind |-> "pass", err |-> False]
        ELSE [kind |-> "fail", err |-> err]

\* An assignment that replaces the whole error map.
RecordErrorAlone(errs, attr, err) == <<Prop(attr, err)>>

\* errors[validation] = err
RecordError(errs, attr, err) == Set(errs, attr, err)

\* The argument of the user's callback: none, or { ValidationError: errors }
CallbackArg(errs) ==
    IF Len(Keys(errs)) = 0 THEN Undefined
    ELSE Object(<<Prop("ValidationError", Object(errs))>>)

SelectedSet == {selected[i] : i \in 1..Len(selected)}

NumAttrs == 2

SchemaDefinitions ==
    { <<Prop("type", Str("string")), Prop("required", True)>>,
      <<Prop("type", Str("boolean")), Prop("required", True)>>,
      <<Prop("type", Str("boolean")), Prop("required", False)>>,
      <<Prop("type", Str("integer")), Prop("min", Num(1))>>,
      <<Prop("type", Str("text")), Prop("required", True)>> }

BagValues == {Null, Str(""), Str("false"), Str("maybe"), True}

\* The values bags over the first NumAttrs attribute names.
RECURSIVE Bags(_)
Bags(n) ==
    IF n = 0 THEN {<<>>}
    ELSE LET fewer == Bags(n - 1)
         IN  fewer \cup {Append(b, Prop(AttrNames[n], v)) : b \in fewer, v \in BagValues}

\* initialize(attrs) with a schema of NumAttrs attributes
InitializeSchema ==
    /\ pc = "idle"
    /\ \E d \in [1..NumAttrs -> SchemaDefinitions] :
          Initialize([i \in 1..NumAttrs |-> Prop(AttrNames[i], Object(d[i]))],
                     Undefined)

\* validate(values, presentOnly, cb), or validate(values, cb): up to the call of
\* async.each, which calls back at once when there is nothing to check
Validate ==
    /\ pc = "built"
    /\ \E bag \in Bags(NumAttrs), second \in {Fn("cb"), True, False} :
          LET sel == SelectAttrs(validations, bag, second)
          IN  /\ values' = bag /\ presentOnly' = second
              /\ selected' = sel
              /\ errors' = <<>> /\ checked' = {} /\ matched' = {} /\ thrownAt' = {}
              /\ IF Len(sel) = 0
                 THEN pc' = "done" /\ cbCount' = 1 /\ cbArg' = CallbackArg(<<>>)
                 ELSE pc' = "running" /\ cbCount' = 0 /\ cbArg' = Undefined
    /\ UNCHANGED <<validations, initAttrs, defVars, toVars>>

\* One run of the iterator, for any attribute not yet checked; the last one to
\* call back makes async.each call the completion function.
CheckAttr ==
    /\ pc = "running"
    /\ \E attr \in SelectedSet \ checked :
          LET r == Iterate(rules, validations, values, attr)
              errs == IF r.kind = "fail" THEN RecordError(errors, attr, r.err)
                      ELSE errors
          IN  IF r.kind = "throw"
              THEN /\ pc' = "thrown" /\ thrownAt' = {attr}
                   /\ UNCHANGED <<checked, matched, errors, cbCount, cbArg>>
              ELSE /\ checked' = checked \cup {attr}
                   /\ matched' = IF r.kind \in {"pass", "fail"}
                                 THEN matched \cup {attr} ELSE matched
                   /\ errors' = errs
                   /\ IF checked \cup {attr} = SelectedSet
                      THEN /\ pc' = "done" /\ cbCount' = cbCount + 1
                           /\ cbArg' = CallbackArg(errs)
                      ELSE UNCHANGED <<pc, cbCount, cbArg>>
                   /\ UNCHANGED thrownAt
    /\ UNCHANGED <<validations, initAttrs, values, presentOnly, selected,
                   defVars, toVars>>

NextValidate == InitializeSchema \/ Validate \/ CheckAttr
SpecValidate == Init /\ [][NextValidate]_vars

-----------------------------------------------------------------------------
(* Properties of validate *)

Called == pc \in {"running", "done", "thrown"}
Ended == pc \in {"done", "thrown"}

Declared == KeySet(validations)
RuleSetOf(attr) == Get(validations, attr).o
IsRequired(attr) == Truthy(Get(RuleSetOf(attr), "required"))

\* The attributes whose iterator has run, to its cb() or to a throw.
Visited == checked \cup thrownAt

\* The violations the matcher finds for attr, as to returns them.
MatcherResult(attr) == To(rules, ValueOf(values, attr), RuleSetOf(attr))

\* C1: validate calls the callback exactly once, after every selected
\* attribute was checked, with no argument if and only if the error map is
\* empty and otherwise with { ValidationError: errors }, errors holding one key
\* for each attribute whose check produced violations.
C1_CallbackOnceAfterAll ==
    /\ cbCount <= 1
    /\ cbCount = 1 => checked = SelectedSet
    /\ Ended =>
           /\ cbCount = 1
           /\ (cbArg = Undefined) = (errors = <<>>)
           /\ errors # <<>> => cbArg = Object(<<Prop("ValidationError", Object(errors))>>)
           /\ KeySet(errors) =
                  {a \in SelectedSet : a \in matched /\ MatcherResult(a) # False}

\* C2: validate never throws, whatever the values bag holds.
C2_NeverThrows == pc # "thrown"

\* C3: the attributes checked are the declared attributes when presentOnly is
\* false or omitted, and the declared attributes that are keys of values when
\* presentOnly is true; nothing outside the selection is checked or reported,
\* and a completed call has checked all of it.  So in present-only mode a
\* declared attribute missing from values has no key in the error map.
C3_AttributeSelection ==
    Called =>
        /\ SelectedSet =
               IF presentOnly = True THEN Declared \cap KeySet(values) ELSE Declared
        /\ Visited \cup matched \cup KeySet(errors) \subseteq SelectedSet
        /\ pc = "done" => checked = SelectedSet
        /\ presentOnly = True =>
               \A a \in Declared \ KeySet(values) :
                   a \notin Visited /\ ~Has(errors, a)

\* A completed present-only call that checked one attribute and left out a
\* required attribute missing from values.
C3_Witness ==
    /\ pc = "done" /\ presentOnly = True /\ checked # {}
    /\ \E a \in Declared \ KeySet(values) :
           IsRequired(a) /\ MatcherResult(a) # False

\* C4: an attribute that is not required and whose value is absent, null or the
\* empty string gets no violation, and the matcher is not run on it, whatever
\* its other rules are.
C4_OptionalEmptySkipped ==
    \A a \in Visited :
        (~IsRequired(a) /\ Get(values, a) \in {Undefined, Null, Str("")}) =>
            a \in checked /\ a \notin matched /\ ~Has(errors, a)

\* An optional attribute given as the empty string was checked, and the matcher
\* would have found violations.
C4_Witness ==
    \E a \in checked :
        /\ ~IsRequired(a) /\ Get(values, a) = Str("")
        /\ Has(RuleSetOf(a), "min") /\ MatcherResult(a) # False

\* C5: a required boolean attribute is accepted, with no violation, when the
\* value is true, false, 'true' or 'false'; every other value, an absent one
\* included, goes to the matcher, whose violations are recorded under the
\* attribute's key.
C5_RequiredBoolean ==
    \A a \in Visited :
        (IsRequired(a) /\ Get(RuleSetOf(a), "type") = Str("boolean")) =>
            IF ValueOf(values, a) \in {True, False, Str("true"), Str("false")}
            THEN a \notin matched /\ ~Has(errors, a)
            ELSE /\ a \in matched
                 /\ MatcherResult(a) # False => Get(errors, a) = MatcherResult(a)

\* The error map a completed call must hold: for each selected attribute that
\* the iterator, run alone, finds in violation, its violations.
ExpectedErrors ==
    {<<a, Iterate(rules, validations, values, a).err>> :
        a \in {b \in SelectedSet :
                  Iterate(rules, validations, values, b).kind = "fail"}}

\* C10: the checks of one call are independent.  A step that checks attribute a
\* changes at most the key a of the error map, and in whatever order the
\* attributes were checked the completed call holds, and passes to the
\* callback, the same map from attributes to violations.
C10_ChecksIndependent ==
    /\ [](pc = "done" =>
            /\ AsMap(errors) = ExpectedErrors
            /\ cbArg = CallbackArg(errors))
    /\ [][pc = "running" =>
            \A a \in Declared :
                Get(errors', a) # Get(errors, a) => checked' \ checked = {a}]_vars

\* Two attributes, both in violation, were checked, the second declared first.
C10_Witness ==
    /\ pc = "done" /\ Len(errors) = 2 /\ Len(selected) = 2
    /\ errors[1].k = selected[2] /\ errors[2].k = selected[1]

=============================================================================
